---- MODULE Spec2Model ----
(***************************************************************************)
(* State machine of CircuitBreakerLib/circuit_breaker.py: the per-key      *)
(* circuit records, the service-level port gate and the sync decorator's   *)
(* wrapper, run by concurrent threads.  A wrapper call is split where the  *)
(* code gives other threads room to act: the admission block (port gate,   *)
(* state check, inflight increment) holds the key's RLock, the wrapped     *)
(* function runs without it, and outcome recording and the finally block   *)
(* are two further acquisitions of it.  The port gate writes the records   *)
(* of the other keys of the service while holding only the caller's lock,  *)
(* so the parts of the admission block are separate steps, and the gate    *)
(* itself is two steps: callers of different keys of a service read and    *)
(* write _last_down around their connection attempts under different locks.*)
(*                                                                         *)
(* _load_config is a second machine, SpecConfig: the configuration file    *)
(* changes on disk and the wrapper's first statement loads it.  The calls  *)
(* of Spec run under the tunables of a loaded configuration, cfg.          *)
(*                                                                         *)
(* Time is an integer clock read by time.time(); it starts at 1 (the epoch *)
(* clock is never 0, which matters for the truthiness tests on opened_at   *)
(* and last_down).                                                         *)
(***************************************************************************)
EXTENDS Integers, Sequences, FiniteSets, TLC

\* ---------------------------------------------------------------- bounds
MaxTime == 3          \* the clock runs over 1..MaxTime
MaxFails == 2         \* cap on the length of a key's fail_times deque

Threads == {"t1", "t2"}

\* ------------------------------------------------------------- constants
CLOSED == "CLOSED"
OPEN == "OPEN"
HALF_OPEN == "HALF_OPEN"
State == {CLOSED, OPEN, HALF_OPEN}

\* State.X.value
Value(state) ==
    CASE state = CLOSED -> "closed"
      [] state = OPEN -> "open"
      [] state = HALF_OPEN -> "half_open"

None == -1            \* Python's None where a number may stand

Services == {"P:S"}
Apis == {"a", "b"}
DummyApi == "_dummy_api"

\* _circuit_key: "project:service:api", kept as the pair <<service, api>>
circuit_key(service, api) == <<service, api>>

Keys == {circuit_key(s, a) : s \in Services, a \in Apis \cup {DummyApi}}
CallKeys == {circuit_key(s, a) : s \in Services, a \in Apis}

\* key.startswith(_service_prefix(project, service))
StartsWith(key, service) == key[1] = service

\* Python truthiness of an optional number: None and 0 are falsy
Truthy(x) == x # None /\ x # 0

\* The tunables _load_config returns for a service: one configuration file
\* per behaviour, BaseConfig or BaseConfig with one entry changed.
BaseConfig ==
    [failure_threshold |-> 1, recovery_timeout |-> 1, half_open_max_calls |-> 1,
     window_seconds |-> 1, response_timeout |-> 1, service_port |-> 8080]

ConfigChoices ==
    {BaseConfig,
     [BaseConfig EXCEPT !.failure_threshold = 2],
     [BaseConfig EXCEPT !.half_open_max_calls = 2],
     [BaseConfig EXCEPT !.recovery_timeout = 2],
     [BaseConfig EXCEPT !.response_timeout = None],
     [BaseConfig EXCEPT !.service_port = None]}

VARIABLES
    circuits,     \* self._circuits: key -> record, a dict (DOMAIN = keys created)
    last_down,    \* self._last_down: service -> instant, a dict
    now,          \* time.time()
    cfg,          \* the loaded configuration, service -> tunables
    endpoint,     \* per thread: the key of the wrapped function it calls
    calls,        \* per thread: the wrapper call it is in
    ret,          \* the wrapper call that returned last, as its caller saw it
    down_at,      \* history: per service, the instant of the failed connection
                  \* attempt whose recovery_timeout is still running, or None
    notified,     \* the calls of on_state_change the step just taken made
    config_file,  \* the configuration file on disk
    cfg_cache,    \* self._cfg_cache
    cfg_mtime,    \* self._cfg_mtime
    loaded        \* what the last _load_config call gave the wrapper

breaker == <<circuits, last_down, now, cfg, endpoint, calls, ret, down_at, notified>>
loader == <<config_file, cfg_cache, cfg_mtime, loaded>>
vars == <<breaker, loader>>

\* ------------------------------------------------------------- registry
NewRecord ==
    [state |-> CLOSED, fail_times |-> <<>>, half_open_inflight |-> 0,
     opened_at |-> None]

\* _get_state: the registry with the key's record created when missing
GetState(c, key) ==
    IF key \in DOMAIN c THEN c
    ELSE [k \in DOMAIN c \cup {key} |-> IF k = key THEN NewRecord ELSE c[k]]

\* _set_state without the fail_times.clear() of HALF_OPEN -> CLOSED
SetStateKeepsWindow(c, key, new_state, ts) ==
    LET c1 == GetState(c, key)
        old == c1[key].state
    IN IF old # new_state
       THEN [c1 EXCEPT ![key] =
               [state |-> new_state,
                opened_at |-> IF new_state = OPEN THEN ts ELSE @.opened_at,
                half_open_inflight |->
                    IF old = HALF_OPEN /\ new_state = CLOSED
                    THEN 0 ELSE @.half_open_inflight,
                fail_times |-> @.fail_times]]
       ELSE c1

\* _set_state storing opened_at on every call for OPEN, changed state or not
SetStateRestamps(c, key, new_state, ts) ==
    LET c1 == GetState(c, key)
        old == c1[key].state
    IN [c1 EXCEPT ![key] =
          [state |-> new_state,
           opened_at |-> IF new_state = OPEN THEN ts ELSE @.opened_at,
           half_open_inflight |->
               IF old = HALF_OPEN /\ new_state = CLOSED
               THEN 0 ELSE @.half_open_inflight,
           fail_times |->
               IF old = HALF_OPEN /\ new_state = CLOSED
               THEN <<>> ELSE @.fail_times]]

\* _set_state(key, new_state, {"ts": ts, ...})
SetState(c, key, new_state, ts) ==
    LET c1 == GetState(c, key)
        old == c1[key].state
    IN IF old # new_state
       THEN [c1 EXCEPT ![key] =
               [state |-> new_state,
                opened_at |-> IF new_state = OPEN THEN ts ELSE @.opened_at,
                half_open_inflight |->
                    IF old = HALF_OPEN /\ new_state = CLOSED
                    THEN 0 ELSE @.half_open_inflight,
                fail_times |->
                    IF old = HALF_OPEN /\ new_state = CLOSED
                    THEN <<>> ELSE @.fail_times]]
       ELSE c1

\* _set_state calling the observer whether or not the state differs
NotifyAlways(c, key, new_state, ts, reason) ==
    <<[key |-> key, old |-> GetState(c, key)[key].state, new |-> new_state,
       ctx |-> [ts |-> ts, reason |-> reason]]>>

\* the calls on_state_change(key, old, new_state, ctx) that
\* _set_state(key, new_state, {"ts": ts, "reason": reason}) makes
Notify(c, key, new_state, ts, reason) ==
    LET old == GetState(c, key)[key].state
    IN IF old # new_state
       THEN <<[key |-> key, old |-> old, new |-> new_state,
               ctx |-> [ts |-> ts, reason |-> reason]]>>
       ELSE <<>>

\* _prune_failures dropping the entry that is exactly window_seconds old too
RECURSIVE PruneFailuresInclusive(_, _, _)
PruneFailuresInclusive(fail_times, t, window_seconds) ==
    IF fail_times # <<>> /\ Head(fail_times) <= t - window_seconds
    THEN PruneFailuresInclusive(Tail(fail_times), t, window_seconds)
    ELSE fail_times

\* _prune_failures: popleft while the oldest entry is older than the window
RECURSIVE PruneFailures(_, _, _)
PruneFailures(fail_times, t, window_seconds) ==
    IF fail_times # <<>> /\ Head(fail_times) < t - window_seconds
    THEN PruneFailures(Tail(fail_times), t, window_seconds)
    ELSE fail_times

\* _record_failure opening on the threshold alone
RecordFailureThresholdOnly(c, key, t, conf) ==
    LET c1 == GetState(c, key)
        c2 == [c1 EXCEPT ![key].fail_times =
                  PruneFailures(Append(@, t), t, conf.window_seconds)]
    IN IF Len(c2[key].fail_times) >= conf.failure_threshold
       THEN SetState(c2, key, OPEN, t)
       ELSE c2

\* _record_failure
RecordFailure(c, key, t, conf) ==
    LET c1 == GetState(c, key)
        c2 == [c1 EXCEPT ![key].fail_times =
                  PruneFailures(Append(@, t), t, conf.window_seconds)]
    IN IF c2[key].state = HALF_OPEN
          \/ Len(c2[key].fail_times) >= conf.failure_threshold
       THEN SetState(c2, key, OPEN, t)
       ELSE c2

\* the observer calls of _record_failure
RecordFailureNotes(c, key, t, conf) ==
    LET c1 == GetState(c, key)
        c2 == [c1 EXCEPT ![key].fail_times =
                  PruneFailures(Append(@, t), t, conf.window_seconds)]
    IN IF c2[key].state = HALF_OPEN
          \/ Len(c2[key].fail_times) >= conf.failure_threshold
       THEN Notify(c2, key, OPEN, t, "api_failure_threshold")
       ELSE <<>>

\* the observer calls of _record_success
RecordSuccessNotes(c, key, t) ==
    IF GetState(c, key)[key].state \in {OPEN, HALF_OPEN}
    THEN Notify(c, key, CLOSED, t, "none")
    ELSE <<>>

\* _record_success also emptying the window of a CLOSED circuit
RecordSuccessResets(c, key, t) ==
    LET c1 == GetState(c, key)
    IN IF c1[key].state \in {OPEN, HALF_OPEN}
       THEN SetState(c1, key, CLOSED, t)
       ELSE [c1 EXCEPT ![key].fail_times = <<>>]

\* _record_success
RecordSuccess(c, key, t) ==
    LET c1 == GetState(c, key)
    IN IF c1[key].state \in {OPEN, HALF_OPEN}
       THEN SetState(c1, key, CLOSED, t)
       ELSE c1

\* _check_state with "now - opened_at > recovery_timeout"
CheckStateStrict(c, key, t, conf) ==
    LET c1 == GetState(c, key)
        s == c1[key]
        recover == s.state = OPEN /\ Truthy(s.opened_at)
                   /\ t - s.opened_at > conf.recovery_timeout
        c2 == IF recover
              THEN [SetState(c1, key, HALF_OPEN, t)
                       EXCEPT ![key].half_open_inflight = 0]
              ELSE c1
    IN IF s.state = OPEN /\ Truthy(s.opened_at) /\ ~recover
       THEN [raised |-> TRUE, c |-> c1]
       ELSE IF c2[key].state = HALF_OPEN
               /\ c2[key].half_open_inflight >= conf.half_open_max_calls
            THEN [raised |-> TRUE, c |-> c2]
            ELSE [raised |-> FALSE, c |-> c2]

\* _check_state with the probe counted before the budget test
CheckStateCountsFirst(c, key, t, conf) ==
    LET c1 == GetState(c, key)
        s == c1[key]
        recover == s.state = OPEN /\ Truthy(s.opened_at)
                   /\ t - s.opened_at >= conf.recovery_timeout
        c2 == IF recover
              THEN [SetState(c1, key, HALF_OPEN, t)
                       EXCEPT ![key].half_open_inflight = 0]
              ELSE c1
    IN IF s.state = OPEN /\ Truthy(s.opened_at) /\ ~recover
       THEN [raised |-> TRUE, c |-> c1]
       ELSE IF c2[key].state = HALF_OPEN
               /\ c2[key].half_open_inflight >= conf.half_open_max_calls
            THEN [raised |-> TRUE,
                  c |-> [c2 EXCEPT ![key].half_open_inflight = @ + 1]]
            ELSE [raised |-> FALSE, c |-> c2]

\* _check_state without "half_open_inflight = 0" on the way to HALF_OPEN
CheckStateNoReset(c, key, t, conf) ==
    LET c1 == GetState(c, key)
        s == c1[key]
        recover == s.state = OPEN /\ Truthy(s.opened_at)
                   /\ t - s.opened_at >= conf.recovery_timeout
        c2 == IF recover
              THEN SetState(c1, key, HALF_OPEN, t)
              ELSE c1
    IN IF s.state = OPEN /\ Truthy(s.opened_at) /\ ~recover
       THEN [raised |-> TRUE, c |-> c1]
       ELSE IF c2[key].state = HALF_OPEN
               /\ c2[key].half_open_inflight >= conf.half_open_max_calls
            THEN [raised |-> TRUE, c |-> c2]
            ELSE [raised |-> FALSE, c |-> c2]

\* _check_state: whether it raises CircuitOpenError, and the registry it leaves
CheckState(c, key, t, conf) ==
    LET c1 == GetState(c, key)
        s == c1[key]
        recover == s.state = OPEN /\ Truthy(s.opened_at)
                   /\ t - s.opened_at >= conf.recovery_timeout
        c2 == IF recover
              THEN [SetState(c1, key, HALF_OPEN, t)
                       EXCEPT ![key].half_open_inflight = 0]
              ELSE c1
    IN IF s.state = OPEN /\ Truthy(s.opened_at) /\ ~recover
       THEN [raised |-> TRUE, c |-> c1]
       ELSE IF c2[key].state = HALF_OPEN
               /\ c2[key].half_open_inflight >= conf.half_open_max_calls
            THEN [raised |-> TRUE, c |-> c2]
            ELSE [raised |-> FALSE, c |-> c2]

\* the observer calls of _check_state
CheckStateNotes(c, key, t, conf) ==
    LET s == GetState(c, key)[key]
    IN IF s.state = OPEN /\ Truthy(s.opened_at)
          /\ t - s.opened_at >= conf.recovery_timeout
       THEN Notify(c, key, HALF_OPEN, t, "none")
       ELSE <<>>

\* the except branch of _check_service_port: every circuit of the service is
\* forced OPEN, or a placeholder is created and opened when there is none
RECURSIVE OpenAll(_, _, _)
OpenAll(c, keys, t) ==
    IF keys = {} THEN c
    ELSE LET k == CHOOSE x \in keys : TRUE
         IN OpenAll(SetState(c, k, OPEN, t), keys \ {k}, t)

PortDown(c, service, t) ==
    LET mine == {k \in DOMAIN c : StartsWith(k, service)}
    IN IF mine # {}
       THEN OpenAll(c, mine, t)
       ELSE SetState(GetState(c, circuit_key(service, DummyApi)),
                     circuit_key(service, DummyApi), OPEN, t)

\* the observer calls of that branch, in the order of the keys visited
RECURSIVE OpenAllNotes(_, _, _)
OpenAllNotes(c, keys, t) ==
    IF keys = {} THEN <<>>
    ELSE LET k == CHOOSE x \in keys : TRUE
         IN Notify(c, k, OPEN, t, "port_down")
            \o OpenAllNotes(SetState(c, k, OPEN, t), keys \ {k}, t)

PortDownNotes(c, service, t) ==
    LET mine == {k \in DOMAIN c : StartsWith(k, service)}
    IN IF mine # {}
       THEN OpenAllNotes(c, mine, t)
       ELSE Notify(c, circuit_key(service, DummyApi), OPEN, t, "port_down")

\* dict helpers for _last_down
DictGet(d, k) == IF k \in DOMAIN d THEN d[k] ELSE None
DictSet(d, k, v) == [x \in DOMAIN d \cup {k} |-> IF x = k THEN v ELSE d[x]]
DictPop(d, k) == [x \in DOMAIN d \ {k} |-> d[x]]

\* ---------------------------------------------------------------- calls
\* pc: "idle" (not in a call),
\*     "gate" (in socket.create_connection, lock held),
\*     "check" (gate passed, lock held), "incr" (_check_state passed, lock held),
\*     "exec" (wrapped function running, lock free),
\*     "recorded" (outcome recorded, except branch and finally still to run)
\* outcome: "none", "ok", "timeout", or the error the wrapped function raised
IdleCall ==
    [pc |-> "idle", key |-> circuit_key("P:S", "a"), probe |-> FALSE,
     pre |-> 0, appended |-> 0, outcome |-> "none"]

\* the errors the wrapped function may raise
Errors == {"Exception", "CircuitOpenError", "ResponseTimeoutError"}

\* ret: what the step just taken handed to a caller of the wrapper, if it
\* ended a call.  kind is "rejected" (raised in the admission block, func never
\* called), "ok", "raised" or "timeout"; result is "value", "fallback" or the
\* error that propagates.  A status query gives kind "status" and its string.
NoReturn ==
    [kind |-> "none", key |-> circuit_key("P:S", "a"), fallback |-> FALSE,
     result |-> "none", appended |-> 0]

ServiceOf(key) == key[1]
Conf(key) == cfg[ServiceOf(key)]

\* the key's RLock kept from admission to the end of the finally block
LockedThroughCall(key) ==
    \E u \in Threads : calls[u].key = key /\ calls[u].pc # "idle"

\* with lock: the key's RLock is held by a thread inside its admission block
Locked(key) ==
    \E u \in Threads :
        calls[u].key = key /\ calls[u].pc \in {"gate", "check", "incr"}

Inflight(c, key) == IF key \in DOMAIN c THEN c[key].half_open_inflight ELSE 0
FailTimes(c, key) == IF key \in DOMAIN c THEN c[key].fail_times ELSE <<>>
StateOf(c, key) == IF key \in DOMAIN c THEN c[key].state ELSE CLOSED

\* Which decorated function each thread calls: both the same endpoint, or two
\* endpoints of one service (the other assignments are these up to renaming).
SameKey == [t \in Threads |-> circuit_key("P:S", "a")]
CrossKeys == [t \in Threads |-> circuit_key("P:S", IF t = "t1" THEN "a" ELSE "b")]
Endpoints == {SameKey, CrossKeys}

\* The wrapped functions that may raise or run into the deadline: the one of
\* endpoint a.  The function of endpoint b always returns.
Failing == {circuit_key("P:S", "a")}

\* The decorator's fallback argument: t1 calls a function wrapped with a
\* fallback, t2 one wrapped without.
Fallback(t) == t = "t1"

\* --------------------------------------------------------- configuration
\* The configuration file: what yaml.safe_load makes of it ("unparseable": it
\* raises YAMLError; "empty": None; "scalar": a string; "map": a mapping), in
\* a mapping what it holds under the project ("absent", "null", "scalar",
\* "map"), in that what it holds under the service, and in that the tunables
\* it sets.
FileValues ==
    [failure_threshold |-> 2, recovery_timeout |-> 7, half_open_max_calls |-> 3,
     window_seconds |-> 9, response_timeout |-> 4, service_port |-> 8080]

Fields == DOMAIN FileValues

Entries ==
    {[k \in D |-> FileValues[k]] :
        D \in {{}, {"failure_threshold"}, {"recovery_timeout", "window_seconds"},
               {"response_timeout", "service_port"}, Fields}}

NoEntry == [k \in {} |-> 0]

Level == {"absent", "null", "scalar"}

FileContents ==
    {[top |-> x, project |-> "absent", service |-> "absent", entry |-> NoEntry] :
        x \in {"unparseable", "empty", "scalar", "map"}}
    \cup {[top |-> "map", project |-> x, service |-> "absent", entry |-> NoEntry] :
             x \in Level}
    \cup {[top |-> "map", project |-> "map", service |-> x, entry |-> NoEntry] :
             x \in Level}
    \cup {[top |-> "map", project |-> "map", service |-> "map", entry |-> e] :
             e \in Entries}

\* {}
EmptyConfig ==
    [top |-> "map", project |-> "absent", service |-> "absent", entry |-> NoEntry]

\* the defaults of _load_config
Defaults ==
    [failure_threshold |-> 5, recovery_timeout |-> 30, half_open_max_calls |-> 1,
     window_seconds |-> 60, response_timeout |-> None, service_port |-> None]

\* cb_config.get(k, default) for every tunable
Tunables(entry) ==
    [k \in Fields |-> IF k \in DOMAIN entry THEN entry[k] ELSE Defaults[k]]

\* the result of a _load_config call: the error it raises, or the tunables
NotLoaded == [done |-> FALSE, raised |-> "none", tunables |-> Defaults]
Raised(e) == [done |-> TRUE, raised |-> e, tunables |-> Defaults]
Returned(t) == [done |-> TRUE, raised |-> "none", tunables |-> t]

\* self._cfg_cache.get(project, {}).get(service, {}) and the dict returned
\* from it: .get on a value that is no mapping raises AttributeError
Lookup(cache) ==
    IF cache.top # "map" THEN Raised("AttributeError")
    ELSE IF cache.project = "absent" THEN Returned(Defaults)
    ELSE IF cache.project # "map" THEN Raised("AttributeError")
    ELSE IF cache.service = "absent" THEN Returned(Defaults)
    ELSE IF cache.service # "map" THEN Raised("AttributeError")
    ELSE Returned(Tunables(cache.entry))

MaxMtime == 3         \* the file is written at most MaxMtime - 1 times

\* the state of the loader after construction, with no file on disk
NoFile == [exists |-> FALSE, mtime |-> 1, content |-> EmptyConfig]

InitLoader ==
    /\ config_file = NoFile
    /\ cfg_cache = EmptyConfig
    /\ cfg_mtime = None
    /\ loaded = NotLoaded

\* the file is written, with a new modification time
WriteFile(content) ==
    /\ config_file.mtime < MaxMtime
    /\ config_file' = [exists |-> TRUE, mtime |-> config_file.mtime + 1,
                       content |-> content]
    /\ loaded' = NotLoaded
    /\ UNCHANGED <<cfg_cache, cfg_mtime, breaker>>

\* the file is removed
RemoveFile ==
    /\ config_file.exists
    /\ config_file' = [config_file EXCEPT !.exists = FALSE]
    /\ loaded' = NotLoaded
    /\ UNCHANGED <<cfg_cache, cfg_mtime, breaker>>

\* wrapper: cfg = self._load_config(project, service), before the lock and
\* outside the try
LoadConfig ==
    IF ~config_file.exists
    THEN \* os.path.getmtime raises FileNotFoundError, which is caught
         /\ cfg_cache' = EmptyConfig
         /\ loaded' = Lookup(EmptyConfig)
         /\ UNCHANGED <<config_file, cfg_mtime, breaker>>
    ELSE IF cfg_mtime = config_file.mtime
    THEN /\ loaded' = Lookup(cfg_cache)
         /\ UNCHANGED <<config_file, cfg_cache, cfg_mtime, breaker>>
    ELSE IF config_file.content.top = "unparseable"
    THEN \* yaml.safe_load raises YAMLError, which nothing catches
         /\ loaded' = Raised("YAMLError")
         /\ UNCHANGED <<config_file, cfg_cache, cfg_mtime, breaker>>
    ELSE LET full_config == IF config_file.content.top = "empty" THEN EmptyConfig
                            ELSE config_file.content
         IN /\ cfg_cache' = full_config
            /\ cfg_mtime' = config_file.mtime
            /\ loaded' = Lookup(full_config)
            /\ UNCHANGED <<config_file, breaker>>

NextConfig ==
    \/ \E content \in FileContents : WriteFile(content)
    \/ RemoveFile
    \/ LoadConfig

\* ------------------------------------------------------------------ calls
Init ==
    /\ InitLoader
    /\ circuits = <<>>
    /\ last_down = <<>>
    /\ now = 1
    /\ cfg \in [Services -> ConfigChoices]
    /\ endpoint \in Endpoints
    /\ endpoint = CrossKeys => \A s \in Services : cfg[s] = BaseConfig
    /\ calls = [t \in Threads |-> IdleCall]
    /\ ret = NoReturn
    /\ down_at = [s \in Services |-> None]
    /\ notified = <<>>

\* is recovery_timeout still running at time t for a failure seen at time d?
Running(d, t, conf) == d # None /\ t - d < conf.recovery_timeout

\* time passes.  A connection attempt (timeout=1) is short against the unit
\* of the clock: the instant _check_service_port reads on entry is still the
\* instant at which the attempt ends.
Tick ==
    /\ now < MaxTime
    /\ \A t \in Threads : calls[t].pc # "gate"
    /\ now' = now + 1
    /\ ret' = NoReturn
    /\ down_at' = [s \in Services |->
                     IF Running(down_at[s], now + 1, cfg[s]) THEN down_at[s]
                     ELSE None]
    /\ notified' = <<>>
    /\ UNCHANGED <<circuits, last_down, cfg, endpoint, calls, loader>>

\* with lock: _check_service_port or _check_state raises CircuitOpenError.
\* The with block is outside the wrapper's try: no except branch looks at the
\* fallback and no finally runs.
AdmissionRaise(key, fb) ==
    [kind |-> "rejected", key |-> key, fallback |-> fb,
     result |-> "CircuitOpenError", appended |-> 0]

\* wrapper, admission part 1: take the lock and run _check_service_port.
\* No port configured: the gate passes.
GateNoPort(t, key) ==
    /\ calls[t].pc = "idle"
    /\ ~Locked(key)
    /\ ~Truthy(Conf(key).service_port)
    /\ calls' = [calls EXCEPT ![t] = [IdleCall EXCEPT !.key = key, !.pc = "check"]]
    /\ ret' = NoReturn
    /\ notified' = <<>>
    /\ UNCHANGED <<circuits, last_down, now, cfg, endpoint, down_at, loader>>

\* must _check_service_port skip the connection attempt?
RecentlyDown(key) ==
    /\ Truthy(DictGet(last_down, ServiceOf(key)))
    /\ now - DictGet(last_down, ServiceOf(key)) < Conf(key).recovery_timeout

\* the service was seen down less than recovery_timeout ago: raise at once
GateRecentlyDown(t, key, fb) ==
    /\ calls[t].pc = "idle"
    /\ ~Locked(key)
    /\ Truthy(Conf(key).service_port)
    /\ RecentlyDown(key)
    /\ ret' = AdmissionRaise(key, fb)
    /\ notified' = <<>>
    /\ UNCHANGED <<circuits, last_down, now, cfg, endpoint, calls, down_at, loader>>

\* the service is not marked down, or was long enough ago: the connection
\* attempt begins
GateConnect(t, key) ==
    /\ calls[t].pc = "idle"
    /\ ~Locked(key)
    /\ Truthy(Conf(key).service_port)
    /\ ~RecentlyDown(key)
    /\ calls' = [calls EXCEPT ![t] = [IdleCall EXCEPT !.key = key, !.pc = "gate"]]
    /\ ret' = NoReturn
    /\ notified' = <<>>
    /\ UNCHANGED <<circuits, last_down, now, cfg, endpoint, down_at, loader>>

\* socket.create_connection succeeds
GateUp(t) ==
    LET key == calls[t].key
    IN /\ calls[t].pc = "gate"
       /\ last_down' = DictPop(last_down, ServiceOf(key))
       /\ calls' = [calls EXCEPT ![t].pc = "check"]
       /\ ret' = NoReturn
       /\ notified' = <<>>
       /\ UNCHANGED <<circuits, now, cfg, endpoint, down_at, loader>>

\* socket.create_connection fails
GateDown(t, fb) ==
    LET key == calls[t].key
    IN /\ calls[t].pc = "gate"
       /\ circuits' = PortDown(circuits, ServiceOf(key), now)
       /\ notified' = PortDownNotes(circuits, ServiceOf(key), now)
       /\ last_down' = DictSet(last_down, ServiceOf(key), now)
       /\ down_at' = [down_at EXCEPT ![ServiceOf(key)] =
                        IF Running(now, now, Conf(key)) THEN now ELSE None]
       /\ ret' = AdmissionRaise(key, fb)
       /\ calls' = [calls EXCEPT ![t] = IdleCall]
       /\ UNCHANGED <<now, cfg, endpoint, loader>>

\* wrapper, admission part 2: _check_state raises CircuitOpenError
CheckReject(t, fb) ==
    LET key == calls[t].key
        r == CheckState(circuits, key, now, Conf(key))
    IN /\ calls[t].pc = "check"
       /\ r.raised
       /\ circuits' = r.c
       /\ notified' = CheckStateNotes(circuits, key, now, Conf(key))
       /\ ret' = AdmissionRaise(key, fb)
       /\ calls' = [calls EXCEPT ![t] = IdleCall]
       /\ UNCHANGED <<last_down, now, cfg, endpoint, down_at, loader>>

\* wrapper, admission part 2: _check_state returns
CheckPass(t) ==
    LET key == calls[t].key
        r == CheckState(circuits, key, now, Conf(key))
    IN /\ calls[t].pc = "check"
       /\ ~r.raised
       /\ circuits' = r.c
       /\ notified' = CheckStateNotes(circuits, key, now, Conf(key))
       /\ calls' = [calls EXCEPT ![t].pc = "incr"]
       /\ ret' = NoReturn
       /\ UNCHANGED <<last_down, now, cfg, endpoint, down_at, loader>>

\* the registry after "if state is HALF_OPEN: half_open_inflight += 1"
Admit(c, key) ==
    LET c1 == GetState(c, key)
    IN IF c1[key].state = HALF_OPEN
       THEN [c1 EXCEPT ![key].half_open_inflight = @ + 1]
       ELSE c1

\* wrapper, admission part 3: count the probe, release the lock, call func
Enter(t) ==
    LET key == calls[t].key
        c1 == GetState(circuits, key)
        probe == c1[key].state = HALF_OPEN
    IN /\ calls[t].pc = "incr"
       /\ circuits' = Admit(circuits, key)
       /\ notified' = <<>>
       /\ calls' = [calls EXCEPT ![t].pc = "exec",
                                 ![t].probe = probe,
                                 ![t].pre = IF probe
                                            THEN c1[key].half_open_inflight
                                            ELSE 0]
       /\ ret' = NoReturn
       /\ UNCHANGED <<last_down, now, cfg, endpoint, down_at, loader>>

\* the wrapped function returns: _record_success under the lock
ReturnOk(t) ==
    LET key == calls[t].key
    IN /\ calls[t].pc = "exec"
       /\ ~Locked(key)
       /\ circuits' = RecordSuccess(circuits, key, now)
       /\ notified' = RecordSuccessNotes(circuits, key, now)
       /\ calls' = [calls EXCEPT ![t].pc = "recorded", ![t].outcome = "ok"]
       /\ ret' = NoReturn
       /\ UNCHANGED <<last_down, now, cfg, endpoint, down_at, loader>>

\* the handlers with "except Exception" alone, recording every error
HandlerRecordsAll(e) == TRUE

\* is a raised error handled by "except Exception" (_record_failure) rather
\* than by "except ResponseTimeoutError" (nothing recorded there)?
HandlerRecords(e) == e # "ResponseTimeoutError"

\* the wrapped function raises e
Raise(t, e) ==
    LET key == calls[t].key
        rec == HandlerRecords(e)
    IN /\ calls[t].pc = "exec"
       /\ key \in Failing
       /\ rec => ~Locked(key)
       /\ rec => Len(FailTimes(circuits, key)) < MaxFails
       /\ circuits' = IF rec THEN RecordFailure(circuits, key, now, Conf(key))
                      ELSE circuits
       /\ notified' = IF rec THEN RecordFailureNotes(circuits, key, now, Conf(key))
                      ELSE <<>>
       /\ calls' = [calls EXCEPT ![t].pc = "recorded", ![t].outcome = e,
                                 ![t].appended = IF rec THEN @ + 1 ELSE @]
       /\ ret' = NoReturn
       /\ UNCHANGED <<last_down, now, cfg, endpoint, down_at, loader>>

\* future.result(timeout=response_timeout) times out: _record_failure under
\* the lock, then ResponseTimeoutError is raised and handled as above
Timeout(t) ==
    LET key == calls[t].key
        again == HandlerRecords("ResponseTimeoutError")
    IN /\ calls[t].pc = "exec"
       /\ key \in Failing
       /\ Truthy(Conf(key).response_timeout)
       /\ ~Locked(key)
       /\ Len(FailTimes(circuits, key)) < MaxFails
       /\ circuits' =
            LET c1 == RecordFailure(circuits, key, now, Conf(key))
            IN IF again THEN RecordFailure(c1, key, now, Conf(key)) ELSE c1
       /\ notified' =
            LET c1 == RecordFailure(circuits, key, now, Conf(key))
            IN RecordFailureNotes(circuits, key, now, Conf(key))
               \o (IF again THEN RecordFailureNotes(c1, key, now, Conf(key))
                   ELSE <<>>)
       /\ calls' = [calls EXCEPT ![t].pc = "recorded", ![t].outcome = "timeout",
                                 ![t].appended = IF again THEN @ + 2 ELSE @ + 1]
       /\ ret' = NoReturn
       /\ UNCHANGED <<last_down, now, cfg, endpoint, down_at, loader>>

\* the finally block without its "half_open_inflight > 0" test
ReleaseUnguarded(c, key) ==
    LET c1 == GetState(c, key)
    IN IF c1[key].state = HALF_OPEN
       THEN [c1 EXCEPT ![key].half_open_inflight = @ - 1]
       ELSE c1

\* the registry after the finally block
Release(c, key) ==
    LET c1 == GetState(c, key)
    IN IF c1[key].state = HALF_OPEN /\ c1[key].half_open_inflight > 0
       THEN [c1 EXCEPT ![key].half_open_inflight = @ - 1]
       ELSE c1

\* what the except branches hand to the caller of a call that ran func;
\* fb is the decorator's fallback argument, which only they read
Surface(call, fb) ==
    [kind |-> IF call.outcome \in Errors THEN "raised" ELSE call.outcome,
     key |-> call.key,
     fallback |-> fb,
     result |-> IF call.outcome = "ok" THEN "value"
                ELSE IF fb THEN "fallback"
                ELSE IF call.outcome = "timeout" THEN "ResponseTimeoutError"
                ELSE call.outcome,
     appended |-> call.appended]

\* finally: under the lock, give the probe slot back; then the call returns
\* or raises
Finally(t, fb) ==
    LET key == calls[t].key
    IN /\ calls[t].pc = "recorded"
       /\ ~Locked(key)
       /\ circuits' = Release(circuits, key)
       /\ notified' = <<>>
       /\ ret' = Surface(calls[t], fb)
       /\ calls' = [calls EXCEPT ![t] = IdleCall]
       /\ UNCHANGED <<last_down, now, cfg, endpoint, down_at, loader>>

\* what status hands to its caller
StatusReturn(key, value) ==
    [kind |-> "status", key |-> key, fallback |-> FALSE, result |-> value,
     appended |-> 0]

\* status running the lazy recovery of _check_state before it reports
StatusLazy(key) ==
    LET c1 == CheckState(circuits, key, now, Conf(key)).c
    IN /\ circuits' = c1
       /\ ret' = StatusReturn(key, Value(c1[key].state))
       /\ notified' = CheckStateNotes(circuits, key, now, Conf(key))
       /\ UNCHANGED <<last_down, now, cfg, endpoint, calls, down_at, loader>>

\* status(project, service, api): creates the record when missing
Status(key) ==
    /\ circuits' = GetState(circuits, key)
    /\ ret' = StatusReturn(key, Value(GetState(circuits, key)[key].state))
    /\ notified' = <<>>
    /\ UNCHANGED <<last_down, now, cfg, endpoint, calls, down_at, loader>>

Next ==
    \/ Tick
    \/ \E t \in Threads : GateNoPort(t, endpoint[t])
    \/ \E t \in Threads : GateRecentlyDown(t, endpoint[t], Fallback(t))
    \/ \E t \in Threads : GateConnect(t, endpoint[t])
    \/ \E t \in Threads : GateUp(t)
    \/ \E t \in Threads : GateDown(t, Fallback(t))
    \/ \E t \in Threads : CheckReject(t, Fallback(t))
    \/ \E t \in Threads : CheckPass(t)
    \/ \E t \in Threads : Enter(t)
    \/ \E t \in Threads : ReturnOk(t)
    \/ \E t \in Threads, e \in Errors : Raise(t, e)
    \/ \E t \in Threads : Timeout(t)
    \/ \E t \in Threads : Finally(t, Fallback(t))
    \/ Status(circuit_key("P:S", "a"))

Spec == Init /\ [][Next]_vars

\* the loader alone, in front of a breaker that is not called
InitConfig ==
    /\ Init
    /\ endpoint = SameKey
    /\ \A s \in Services : cfg[s] = BaseConfig

SpecConfig == InitConfig /\ [][NextConfig]_vars

\* ------------------------------------------------------------ properties
TypeOK ==
    /\ DOMAIN circuits \subseteq Keys
    /\ \A k \in DOMAIN circuits :
          /\ circuits[k].state \in State
          /\ circuits[k].half_open_inflight \in Nat
          /\ circuits[k].opened_at \in {None} \cup (1..MaxTime)
    /\ now \in 1..MaxTime

\* a thread is inside a wrapper call on key
InCall(t, key) == calls[t].pc # "idle" /\ calls[t].key = key

\* the step is taken by thread t and ends its admission block
CheckStep(t) == calls[t].pc = "check" /\ calls'[t].pc # "check"
GateRejects(t) ==
    /\ calls[t].pc \in {"idle", "gate"}
    /\ calls'[t].pc = "idle"
    /\ ret'.kind = "rejected"
    /\ ret'.fallback = Fallback(t)

\* the key's circuit is OPEN and recovery_timeout has (not) elapsed
OpenFor(key) == now - circuits[key].opened_at
IsOpen(key) == key \in DOMAIN circuits /\ circuits[key].state = OPEN

\* C1: per key, the calls admitted as HALF_OPEN probes that are still running
\* the wrapped function never outnumber half_open_max_calls.
C1_ProbesBounded ==
    \A key \in CallKeys :
        Cardinality({t \in Threads : /\ calls[t].key = key
                                     /\ calls[t].pc = "exec"
                                     /\ calls[t].probe})
            <= Conf(key).half_open_max_calls

\* C2: with no other call on the key in flight and recovery_timeout > 0, the
\* failure of an executed call that brings the failed calls inside the window
\* to failure_threshold on a CLOSED circuit leaves it OPEN, and a call made
\* next is rejected by the state check.
C2_ThresholdOpens ==
    [][\A t \in Threads :
          LET key == calls[t].key
              conf == Conf(key)
          IN (/\ calls[t].pc = "exec"
              /\ calls'[t].pc = "recorded"
              /\ calls'[t].outcome # "ok"
              /\ \A u \in Threads \ {t} : ~InCall(u, key)
              /\ conf.recovery_timeout > 0
              /\ circuits[key].state = CLOSED
              /\ Len(PruneFailures(Append(circuits[key].fail_times, now), now,
                                   conf.window_seconds))
                    >= conf.failure_threshold)
             => /\ circuits'[key].state = OPEN
                /\ CheckState(circuits', key, now, conf).raised]_vars

\* the parts of C3: an early call is rejected and changes nothing of the
\* circuit; a late call moves it to HALF_OPEN with half_open_inflight 0;
\* nothing but such a call moves a circuit to HALF_OPEN
C3_Early ==
    \A t \in Threads :
        LET key == endpoint[t]
        IN ((CheckStep(t) \/ GateRejects(t))
            /\ IsOpen(key) /\ OpenFor(key) < Conf(key).recovery_timeout)
           => /\ ret'.kind = "rejected"
              /\ calls'[t].pc = "idle"
              /\ circuits'[key] = circuits[key]

C3_OnlyByCall ==
    \A key \in Keys :
        (StateOf(circuits', key) = HALF_OPEN /\ StateOf(circuits, key) # HALF_OPEN)
        => /\ IsOpen(key)
           /\ OpenFor(key) >= Conf(key).recovery_timeout
           /\ \E t \in Threads : CheckStep(t) /\ calls[t].key = key

C3_Late(attempt(_)) ==
    \A t \in Threads :
        LET key == endpoint[t]
        IN (attempt(t)
            /\ IsOpen(key) /\ OpenFor(key) >= Conf(key).recovery_timeout)
           => /\ circuits'[key].state = HALF_OPEN
              /\ circuits'[key].half_open_inflight = 0

AnyAttempt(t) == CheckStep(t) \/ GateRejects(t)

\* C3: on an OPEN circuit a call attempted before recovery_timeout has
\* elapsed since opened_at is rejected and changes nothing of the circuit; a
\* call attempted once it has elapsed moves the circuit to HALF_OPEN with
\* half_open_inflight 0; nothing else moves a circuit to HALF_OPEN.
C3_LazyRecovery ==
    [][C3_Early /\ C3_Late(AnyAttempt) /\ C3_OnlyByCall]_vars

\* C3 amended: the second part holds of the calls that reach the state check,
\* that is, whose service has no port configured or passed the port gate.
C3_LazyRecoveryPastGate ==
    [][C3_Early /\ C3_Late(CheckStep) /\ C3_OnlyByCall]_vars

C3_Witness ==
    \E t \in Threads :
        LET key == calls[t].key
        IN /\ calls[t].pc = "incr"
           /\ key \in DOMAIN circuits
           /\ circuits[key].state = HALF_OPEN
           /\ circuits[key].half_open_inflight = 0
           /\ Truthy(circuits[key].opened_at)
           /\ now - circuits[key].opened_at >= Conf(key).recovery_timeout
           /\ Truthy(Conf(key).service_port)

\* C4: a circuit's state changes only along CLOSED->OPEN, OPEN->HALF_OPEN,
\* HALF_OPEN->OPEN and HALF_OPEN->CLOSED.
Edges ==
    {<<CLOSED, OPEN>>, <<OPEN, HALF_OPEN>>, <<HALF_OPEN, OPEN>>,
     <<HALF_OPEN, CLOSED>>}

C4_OnlyEdges ==
    [][\A key \in Keys :
          StateOf(circuits', key) # StateOf(circuits, key)
          => <<StateOf(circuits, key), StateOf(circuits', key)>> \in Edges]_vars

\* C5: half_open_inflight is 0 whenever the circuit is CLOSED or OPEN.
C5_InflightOnlyHalfOpen ==
    \A key \in DOMAIN circuits :
        circuits[key].state # HALF_OPEN => circuits[key].half_open_inflight = 0

\* C6: when a call admitted as a probe returns and no other call on its key is
\* in progress, half_open_inflight is back at its value before the call's
\* increment.
C6_ProbeReleased ==
    [][\A t \in Threads :
          LET key == calls[t].key
          IN (/\ calls[t].pc = "recorded"
              /\ calls'[t].pc = "idle"
              /\ calls[t].probe
              /\ \A u \in Threads \ {t} : ~InCall(u, key))
             => Inflight(circuits', key) = calls[t].pre]_vars

\* C7: a call rejected at admission returns the fallback's result when a
\* fallback was supplied, and raises CircuitOpenError when none was.
C7_RejectionFallsBack ==
    ret.kind = "rejected"
    => ret.result = IF ret.fallback THEN "fallback" ELSE "CircuitOpenError"

\* C8: a call rejected at admission does not run the wrapped function, appends
\* to no key's failure window and leaves every key's half_open_inflight as it
\* was.
C8_RejectionFrame ==
    [][ret'.kind = "rejected"
       => /\ \A t \in Threads : calls'[t].pc = "exec" => calls[t].pc = "exec"
          /\ ret'.appended = 0
          /\ \A key \in Keys :
                /\ FailTimes(circuits', key) = FailTimes(circuits, key)
                /\ Inflight(circuits', key) = Inflight(circuits, key)]_vars

C8_Witness ==
    /\ ret.kind = "rejected"
    /\ ret.key \in DOMAIN circuits
    /\ circuits[ret.key].state = HALF_OPEN
    /\ circuits[ret.key].half_open_inflight >= Conf(ret.key).half_open_max_calls
    /\ circuits[ret.key].fail_times # <<>>

\* how many entries of a failure window equal t
RECURSIVE Count(_, _)
Count(fail_times, t) ==
    IF fail_times = <<>> THEN 0
    ELSE (IF Head(fail_times) = t THEN 1 ELSE 0) + Count(Tail(fail_times), t)

\* C9: a call whose deadline elapses appends exactly one timestamp to its
\* key's window, before the outcome is surfaced, and its caller then gets
\* ResponseTimeoutError, or the fallback's result when a fallback was supplied.
C9_TimeoutCountedOnce ==
    [][\A t \in Threads :
          LET key == calls[t].key
          IN /\ (calls[t].pc = "exec" /\ calls'[t].pc = "recorded"
                 /\ calls'[t].outcome = "timeout")
                => /\ Count(FailTimes(circuits', key), now)
                        = Count(FailTimes(circuits, key), now) + 1
                   /\ calls'[t].appended = 1
                   /\ ret'.kind = "none"
             /\ (calls[t].pc = "recorded" /\ calls'[t].pc = "idle"
                 /\ calls[t].outcome = "timeout")
                => /\ FailTimes(circuits', key) = FailTimes(circuits, key)
                   /\ ret'.kind = "timeout"
                   /\ ret'.appended = 1
                   /\ ret'.result = IF ret'.fallback THEN "fallback"
                                    ELSE "ResponseTimeoutError"]_vars

C9_Witness ==
    /\ ret.kind = "timeout"
    /\ ret.appended = 1
    /\ ret.result = "ResponseTimeoutError"
    /\ Count(FailTimes(circuits, ret.key), now) = 1

\* C10: a call whose wrapped function raises, whatever the error's type,
\* appends exactly one timestamp to its key's window, and its caller gets that
\* error, or the fallback's result when a fallback was supplied.
C10_RaiseCountedOnce ==
    [][\A t \in Threads, e \in Errors :
          LET key == calls[t].key
          IN /\ (calls[t].pc = "exec" /\ calls'[t].pc = "recorded"
                 /\ calls'[t].outcome = e)
                => /\ Count(FailTimes(circuits', key), now)
                        = Count(FailTimes(circuits, key), now) + 1
                   /\ calls'[t].appended = 1
             /\ (calls[t].pc = "recorded" /\ calls'[t].pc = "idle"
                 /\ calls[t].outcome = e)
                => /\ FailTimes(circuits', key) = FailTimes(circuits, key)
                   /\ ret'.result = IF ret'.fallback THEN "fallback" ELSE e]_vars

\* the step is thread t's wrapped function returning (_record_success)
Succeeds(t) ==
    calls[t].pc = "exec" /\ calls'[t].pc = "recorded" /\ calls'[t].outcome = "ok"

\* the step is thread t's call recording a failure (_record_failure): a
\* timeout, or an error handled by "except Exception"
Fails(t) ==
    /\ calls[t].pc = "exec" /\ calls'[t].pc = "recorded"
    /\ calls'[t].appended > 0

\* C11: a success recorded while the key's circuit is HALF_OPEN leaves it
\* CLOSED with an empty failure window and half_open_inflight 0, whatever the
\* window held before.
C11_SuccessCloses ==
    [][\A t \in Threads :
          LET key == calls[t].key
          IN (Succeeds(t) /\ StateOf(circuits, key) = HALF_OPEN)
             => /\ circuits'[key].state = CLOSED
                /\ circuits'[key].fail_times = <<>>
                /\ circuits'[key].half_open_inflight = 0]_vars

\* a probe's success has just been recorded on a circuit that failures had
\* opened (no port gate is configured, so nothing else opens a circuit)
C11_Witness ==
    \E t \in Threads :
        LET key == calls[t].key
        IN /\ calls[t].pc = "recorded" /\ calls[t].outcome = "ok"
           /\ calls[t].probe
           /\ ~Truthy(Conf(key).service_port)
           /\ circuits[key].state = CLOSED
           /\ Truthy(circuits[key].opened_at)
           /\ circuits[key].fail_times = <<>>
           /\ circuits[key].half_open_inflight = 0

\* C12: a failure recorded while the key's circuit is HALF_OPEN leaves it
\* OPEN in that step with opened_at the instant of the failure, for every
\* failure_threshold and every content of the window.
C12_ProbeFailureReopens ==
    [][\A t \in Threads :
          LET key == calls[t].key
          IN (Fails(t) /\ StateOf(circuits, key) = HALF_OPEN)
             => /\ circuits'[key].state = OPEN
                /\ circuits'[key].opened_at = now]_vars

\* a probe's failure reopened the circuit with the window below the threshold
C12_Witness ==
    \E t \in Threads :
        LET key == calls[t].key
        IN /\ calls[t].pc = "recorded" /\ calls[t].appended = 1
           /\ calls[t].probe
           /\ circuits[key].state = OPEN
           /\ circuits[key].opened_at = now
           /\ Len(circuits[key].fail_times) < Conf(key).failure_threshold

\* how many entries of a failure window are not older than window_seconds at t
InWindow(fail_times, t, window_seconds) ==
    LET Recent(x) == x >= t - window_seconds
    IN Len(SelectSeq(fail_times, Recent))

\* threshold 3, window 10, failures at 0 and 1: a failure at 11 leaves the
\* circuit CLOSED, a failure at 2 opens it
C13_Example ==
    LET key == circuit_key("P:S", "a")
        conf == [BaseConfig EXCEPT !.failure_threshold = 3, !.window_seconds = 10]
        c == [k \in {key} |-> [NewRecord EXCEPT !.fail_times = <<0, 1>>]]
    IN /\ RecordFailure(c, key, 11, conf)[key].state = CLOSED
       /\ RecordFailure(c, key, 2, conf)[key].state = OPEN
       /\ RecordFailure(c, key, 2, conf)[key].opened_at = 2

\* C13: a failure recorded at time now on a CLOSED circuit opens it if and
\* only if the recorded failures with timestamp >= now - window_seconds, the
\* new one counted, number at least failure_threshold; with threshold 3 and
\* window 10, failures at 0, 1 and 11 do not open the circuit and failures at
\* 0, 1 and 2 do.
C13_SlidingWindow ==
    [][/\ C13_Example
       /\ \A t \in Threads :
            LET key == calls[t].key
                conf == Conf(key)
            IN (Fails(t) /\ StateOf(circuits, key) = CLOSED)
               => /\ (circuits'[key].state = OPEN)
                       <=> (InWindow(Append(FailTimes(circuits, key), now), now,
                                     conf.window_seconds)
                               >= conf.failure_threshold)
                  /\ circuits'[key].state \in {OPEN, CLOSED}
                  /\ Len(circuits'[key].fail_times)
                        = InWindow(Append(FailTimes(circuits, key), now), now,
                                   conf.window_seconds)]_vars

\* two calls on one key have each recorded a failure, the circuit was never
\* opened and its window holds the later failure alone: the earlier one had
\* left the window and the threshold of 2 was not reached
C13_Witness ==
    /\ \A t \in Threads :
          /\ calls[t].pc = "recorded" /\ calls[t].appended = 1
          /\ calls[t].key = circuit_key("P:S", "a")
    /\ Conf(circuit_key("P:S", "a")).failure_threshold = 2
    /\ circuits[circuit_key("P:S", "a")].state = CLOSED
    /\ circuits[circuit_key("P:S", "a")].opened_at = None
    /\ circuits[circuit_key("P:S", "a")].fail_times = <<now>>

\* the step is thread t's connection attempt failing
ProbeFails(t) == calls[t].pc = "gate" /\ calls'[t].pc = "idle"

\* the step is thread t beginning a call (the first step of its admission)
Begins(t) ==
    /\ calls[t].pc = "idle"
    /\ calls'[t].pc # "idle" \/ GateRejects(t)

\* C14, the gate step: a failed connection attempt leaves every circuit of
\* the service OPEN, a placeholder included when the service had none, and
\* rejects the call
C14_Cascade ==
    \A t \in Threads :
        LET service == ServiceOf(calls[t].key)
            mine == {k \in DOMAIN circuits' : StartsWith(k, service)}
        IN ProbeFails(t)
           => /\ DOMAIN circuits \subseteq DOMAIN circuits'
              /\ mine # {}
              /\ \A k \in mine : circuits'[k].state = OPEN
              /\ ret'.kind = "rejected"
              /\ ret'.key = calls[t].key

\* C14, afterwards: a call begun while recovery_timeout is running since the
\* failed attempt is rejected without a connection attempt
C14_NoRetry ==
    \A t \in Threads :
        LET service == ServiceOf(endpoint[t])
        IN (Begins(t) /\ Running(down_at[service], now, cfg[service]))
           => /\ calls'[t].pc = "idle"
              /\ ret'.kind = "rejected"
              /\ circuits' = circuits

\* C14: when a connection attempt of a service with a port fails at time t,
\* that gate step leaves every circuit of the service OPEN (a placeholder is
\* created and opened if there was none) and rejects the call, and every
\* later call on a key of the service begun before t + recovery_timeout is
\* rejected without a new connection attempt.
C14_GateHoldsDown ==
    [][C14_Cascade /\ C14_NoRetry]_vars

\* C14, the gate step alone
C14_GateStep ==
    [][C14_Cascade]_vars

\* the observer calls the step made for key
NotesFor(key) ==
    LET About(n) == n.key = key
    IN SelectSeq(notified', About)

\* C15: a step in which a key's state changes calls the observer exactly once
\* for that key, with the key, the state before, the state after (different
\* from the one before) and a context holding a timestamp; a step that leaves
\* the key's state as it was does not call it for that key.
C15_NotifiedOncePerChange ==
    [][\A key \in Keys :
          IF StateOf(circuits', key) # StateOf(circuits, key)
          THEN /\ Len(NotesFor(key)) = 1
               /\ NotesFor(key)[1].old = StateOf(circuits, key)
               /\ NotesFor(key)[1].new = StateOf(circuits', key)
               /\ NotesFor(key)[1].old # NotesFor(key)[1].new
               /\ NotesFor(key)[1].ctx.ts = now
          ELSE NotesFor(key) = <<>>]_vars

\* a failed connection attempt has opened one circuit of the service, with
\* one observer call, and left an already OPEN one without a call
C15_Witness ==
    /\ ret.kind = "rejected"
    /\ Len(notified) = 1
    /\ notified[1].ctx.reason = "port_down"
    /\ \E k \in DOMAIN circuits :
          /\ k # notified[1].key
          /\ circuits[k].state = OPEN
          /\ circuits[k].opened_at # now

\* thread u, not in a call, can begin one: its key's lock can be taken
CanBegin(u) ==
    ENABLED (\/ GateNoPort(u, endpoint[u])
             \/ GateRecentlyDown(u, endpoint[u], Fallback(u))
             \/ GateConnect(u, endpoint[u]))

\* C16: a key's lock is held inside the admission block and inside the
\* recording and release steps only, never while the wrapped function runs:
\* while one caller's function runs, a second caller on the same key can
\* take the lock and begin its admission.
C16_LockFreeWhileRunning ==
    \A t \in Threads, u \in Threads :
        (/\ calls[t].pc = "exec"
         /\ calls[u].pc = "idle"
         /\ endpoint[u] = calls[t].key
         /\ \A w \in Threads :
               calls[w].key = calls[t].key => calls[w].pc \in {"idle", "exec"})
        => CanBegin(u)

\* two callers of one key run the wrapped function at once on a CLOSED
\* circuit, neither as a probe
C16_Witness ==
    /\ \A t \in Threads :
          /\ calls[t].pc = "exec"
          /\ calls[t].key = circuit_key("P:S", "a")
          /\ ~calls[t].probe
    /\ circuits[circuit_key("P:S", "a")].state = CLOSED

\* the step is taken by thread t inside a call on key
ActsOn(t, key) == calls'[t] # calls[t] /\ calls[t].key = key

\* C17: every change to a key's record is made by a thread in a call on that
\* key, holding the key's own lock; between a caller's admission check and
\* its inflight increment nobody else changes its key's record; and no caller
\* goes on to run the wrapped function with its circuit OPEN.
C17_WritesUnderOwnLock ==
    [][/\ \A key \in DOMAIN circuits :
             circuits'[key] # circuits[key]
             => \E t \in Threads : ActsOn(t, key)
       /\ \A u \in Threads :
             (calls[u].pc = "incr" /\ calls'[u] = calls[u])
             => circuits'[calls[u].key] = circuits[calls[u].key]
       /\ \A u \in Threads :
             (calls[u].pc = "incr" /\ calls'[u].pc = "exec")
             => circuits[calls[u].key].state # OPEN]_vars

\* the tunables the claim expects of a file
Expected(file) ==
    IF /\ file.exists
       /\ file.content.top = "map"
       /\ file.content.project = "map"
       /\ file.content.service = "map"
    THEN Tunables(file.content.entry)
    ELSE Defaults

\* C18: _load_config never raises into the call: with the file missing,
\* unparseable, or holding a project or service entry that is no mapping, the
\* call goes on under the defaults 5, 30, 60, 1 and response_timeout absent,
\* and a field missing from a partial entry takes its default.
C18_LoadNeverRaises ==
    loaded.done
    => /\ loaded.raised = "none"
       /\ loaded.tunables = Expected(config_file)

\* C19: status returns "closed", "open" or "half_open" as the key's stored
\* state is ("closed" for a key without a record, which it creates) and
\* changes no existing record: an OPEN circuit stays OPEN and is reported
\* "open" however long ago it opened.
C19_StatusReadsOnly ==
    [][ret'.kind = "status"
       => LET key == ret'.key
              stored == StateOf(circuits, key)
          IN /\ stored = CLOSED => ret'.result = "closed"
             /\ stored = OPEN => ret'.result = "open"
             /\ stored = HALF_OPEN => ret'.result = "half_open"
             /\ \A k \in DOMAIN circuits : circuits'[k] = circuits[k]
             /\ DOMAIN circuits' = DOMAIN circuits \cup {key}
             /\ key \notin DOMAIN circuits => circuits'[key] = NewRecord]_vars

\* status has just reported "open" for a circuit whose recovery_timeout has
\* elapsed
C19_Witness ==
    /\ ret.kind = "status"
    /\ ret.result = "open"
    /\ circuits[ret.key].state = OPEN
    /\ Truthy(circuits[ret.key].opened_at)
    /\ now - circuits[ret.key].opened_at >= Conf(ret.key).recovery_timeout

\* C20: in every reachable state every key's half_open_inflight is at least
\* 0 and at most half_open_max_calls.
C20_InflightInRange ==
    \A key \in DOMAIN circuits :
        /\ circuits[key].half_open_inflight >= 0
        /\ circuits[key].half_open_inflight <= Conf(key).half_open_max_calls

\* the cap is reached: two probes run on a HALF_OPEN circuit that allows two
C20_Witness ==
    \E key \in DOMAIN circuits :
        /\ circuits[key].state = HALF_OPEN
        /\ Conf(key).half_open_max_calls = 2
        /\ circuits[key].half_open_inflight = 2
        /\ \A t \in Threads :
              calls[t].key = key /\ calls[t].pc = "exec" /\ calls[t].probe

\* C21: whenever a key's circuit is CLOSED between lock-protected steps, its
\* failure window holds fewer than failure_threshold timestamps, also after a
\* call admitted before the circuit opened completes.
C21_ClosedBelowThreshold ==
    \A key \in DOMAIN circuits :
        circuits[key].state = CLOSED
        => Len(circuits[key].fail_times) < Conf(key).failure_threshold

C23_Example ==
    LET key == circuit_key("P:S", "a")
        conf == [BaseConfig EXCEPT !.failure_threshold = 2, !.window_seconds = 10]
        c0 == [k \in {key} |-> NewRecord]
        c1 == RecordFailure(c0, key, 1, conf)
        c2 == RecordSuccess(c1, key, 1)
        c3 == RecordFailure(c2, key, 2, conf)
    IN /\ c1[key].state = CLOSED
       /\ c2[key] = c1[key]
       /\ c3[key].state = OPEN

\* C23: a success recorded while the key's circuit is CLOSED leaves the whole
\* record as it was (state, failure window, half_open_inflight, opened_at),
\* so failures with successes between them still open the circuit once
\* failure_threshold of them lie within window_seconds.
C23_SuccessKeepsWindow ==
    [][/\ C23_Example
       /\ \A t \in Threads :
            LET key == calls[t].key
            IN (Succeeds(t) /\ StateOf(circuits, key) = CLOSED)
               => /\ circuits'[key] = circuits[key]
                  /\ notified' = <<>>]_vars

\* a success has just been recorded on a circuit that was never opened and
\* holds a failure in its window
C23_Witness ==
    \E t \in Threads :
        LET key == calls[t].key
        IN /\ calls[t].pc = "recorded" /\ calls[t].outcome = "ok"
           /\ circuits[key].state = CLOSED
           /\ circuits[key].opened_at = None
           /\ circuits[key].fail_times # <<>>

\* the calls on key admitted as probes whose finally block has not run yet
ProbesInProgress(cs, key) ==
    {t \in Threads : /\ cs[t].key = key
                     /\ cs[t].probe
                     /\ cs[t].pc \in {"exec", "recorded"}}

\* C24: no probe slot leaks into a lockout. After every step, a HALF_OPEN
\* circuit's half_open_inflight is at most the number of calls admitted as
\* probes that have not finished their finally block; with a probe budget of
\* at least 1, a call whose state check finds the circuit HALF_OPEN with no
\* probe in progress is admitted, and a call whose state check finds it OPEN
\* with recovery_timeout elapsed moves it to HALF_OPEN and is admitted.
C24_NoLeakedSlot ==
    [][/\ \A key \in DOMAIN circuits' :
            circuits'[key].state = HALF_OPEN
            => circuits'[key].half_open_inflight
                  <= Cardinality(ProbesInProgress(calls', key))
       /\ \A t \in Threads :
            LET key == calls[t].key
                conf == Conf(key)
            IN (/\ CheckStep(t)
                /\ conf.half_open_max_calls >= 1
                /\ key \in DOMAIN circuits
                /\ \/ /\ circuits[key].state = HALF_OPEN
                      /\ ProbesInProgress(calls, key) = {}
                   \/ /\ IsOpen(key)
                      /\ OpenFor(key) >= conf.recovery_timeout)
               => /\ calls'[t].pc = "incr"
                  /\ circuits'[key].state = HALF_OPEN
                  /\ ret' = NoReturn]_vars

\* C24 witness: a call has just passed the state check of a circuit that its
\* check moved back to HALF_OPEN with half_open_inflight 0, while an earlier
\* probe of the same key, counted before the circuit reopened, has not run
\* its finally block yet
C24_Witness ==
    \E t \in Threads : \E u \in Threads \ {t} :
        LET key == calls[t].key
        IN /\ calls[t].pc = "incr"
           /\ key \in DOMAIN circuits
           /\ circuits[key].state = HALF_OPEN
           /\ circuits[key].half_open_inflight = 0
           /\ u \in ProbesInProgress(calls, key)
           /\ calls[u].pc = "recorded"
           /\ calls[u].outcome # "ok"

====
